---- MODULE Spec2Model ----
(***************************************************************************)
(* A model of pygeoapi's geoCore provider (src/pygeoapi/provider/cgp.py):  *)
(* the translation of a search request into backend parameters, the repair *)
(* and parsing of the response body, UUID validation and the assembly of   *)
(* GeoJSON features.                                                       *)
(*                                                                         *)
(* Text (a Python str) is a sequence of one-character strings.  A Python   *)
(* value x is a pair <<type name, payload>>, x[1] its type and x[2] its    *)
(* payload:                                                                *)
(*   NoneType (payload 0), bool (a BOOLEAN), int (an integer),             *)
(*   str (a text), list (a sequence of values),                            *)
(*   dict (a function from key strings to values).                         *)
(* An operation that may raise yields [raise |-> <exception name>] or      *)
(* [return |-> <value>].                                                   *)
(***************************************************************************)
EXTENDS Integers, Sequences, FiniteSets, TLC

QUOTE == "\""
BACKSLASH == "\\"
NEWLINE == "\n"

\* The hex digits of a UUID (uuid.UUID: len(hex) != 32 raises ValueError).
UUID_HEX_LEN == 32

(***************************************************************************)
(* Python values                                                           *)
(***************************************************************************)
PyNone == <<"NoneType", 0>>
PyBool(b) == <<"bool", b>>
PyInt(n) == <<"int", n>>
PyStr(s) == <<"str", s>>
PyList(xs) == <<"list", xs>>
PyDict(f) == <<"dict", f>>
EmptyDict == PyDict(<<>>)

\* Python truth value of x (the operand of `not x`).
Truthy(x) ==
  CASE x[1] = "NoneType" -> FALSE
    [] x[1] = "bool" -> x[2]
    [] x[1] = "int" -> x[2] # 0
    [] x[1] = "str" -> Len(x[2]) > 0
    [] x[1] = "list" -> Len(x[2]) > 0
    [] x[1] = "dict" -> DOMAIN x[2] # {}

\* The key string of a text (dict keys are TLA+ strings).
RECURSIVE Str(_)
Str(s) == IF s = <<>> THEN "" ELSE Head(s) \o Str(Tail(s))

\* dict d without key k, and with key k set to x (a later duplicate wins).
DictDel(d, k) == [j \in DOMAIN d \ {k} |-> d[j]]
DictSet(d, k, x) == [j \in DOMAIN d \cup {k} |-> IF j = k THEN x ELSE d[j]]

(***************************************************************************)
(* Python str methods                                                      *)
(***************************************************************************)
\* s[i:i+len(pat)] == pat
HasAt(s, i, pat) ==
  /\ i + Len(pat) - 1 <= Len(s)
  /\ \A j \in 1..Len(pat) : s[i + j - 1] = pat[j]

\* The least and the greatest element of a non-empty set of positions.
Least(S) == CHOOSE x \in S : \A y \in S : x <= y
Greatest(S) == CHOOSE x \in S : \A y \in S : y <= x

\* The least position of S, 0 when S is empty.
FirstOr0(S) == IF S = {} THEN 0 ELSE Least(S)

\* The first position from i on where pat occurs in s, 0 when there is none.
find(s, pat, i) == FirstOr0({p \in i..(Len(s) - Len(pat) + 1) : HasAt(s, p, pat)})

\* str.replace(old, new) from position i on: leftmost non-overlapping
\* occurrences; p is the next one.
RECURSIVE replace_from(_, _, _, _)
replace_at(s, i, old, new, p) ==
  IF p = 0 THEN SubSeq(s, i, Len(s))
  ELSE SubSeq(s, i, p - 1) \o new \o replace_from(s, p + Len(old), old, new)

replace_from(s, i, old, new) == replace_at(s, i, old, new, find(s, old, i))

replace(s, old, new) == replace_from(s, 1, old, new)

\* str.strip(chars): drop the characters of the set chars at both ends; keep
\* is the positions of the other characters.
strip_to(s, keep) ==
  IF keep = {} THEN <<>> ELSE SubSeq(s, Least(keep), Greatest(keep))

strip(s, chars) == strip_to(s, {i \in 1..Len(s) : s[i] \notin chars})

(***************************************************************************)
(* json.loads (Python's json module), on the model's alphabet: objects,    *)
(* arrays, strings, integers and the literals null, true and false.        *)
(* Numbers with a fraction or an exponent, the \u escape and the literals  *)
(* NaN and Infinity are outside the alphabet and occur in no input.        *)
(***************************************************************************)
WHITESPACE == {" ", "\t", "\n", "\r"}
DIGITS == {"0", "1", "2", "3", "4", "5", "6", "7", "8", "9"}
CONTROL == {"\t", "\n", "\r", "\f"}

DigitVal(c) ==
  CASE c = "0" -> 0 [] c = "1" -> 1 [] c = "2" -> 2 [] c = "3" -> 3
    [] c = "4" -> 4 [] c = "5" -> 5 [] c = "6" -> 6 [] c = "7" -> 7
    [] c = "8" -> 8 [] c = "9" -> 9

\* The character an escape \c stands for inside a JSON string.
BACKSLASH_ESC ==
  (QUOTE :> QUOTE) @@ (BACKSLASH :> BACKSLASH) @@ ("/" :> "/")
    @@ ("n" :> "\n") @@ ("t" :> "\t") @@ ("r" :> "\r") @@ ("f" :> "\f")

\* A scan fails, or gives a value and the position after it.
Fail == [ok |-> FALSE]
Ok(x, p) == [ok |-> TRUE, value |-> x, p |-> p]

RECURSIVE skip_ws(_, _)
skip_ws(s, i) ==
  IF i <= Len(s) /\ s[i] \in WHITESPACE THEN skip_ws(s, i + 1) ELSE i

\* The string whose opening quote precedes position i; acc is what was read.
\* Plain characters run up to position j, the next quote, backslash or
\* control character: the end of the string, an escape, or an error.
RECURSIVE py_scanstring(_, _, _)
py_scanstring_stop(s, i, acc, j) ==
  IF j = 0 THEN Fail
  ELSE IF s[j] = QUOTE THEN Ok(acc \o SubSeq(s, i, j - 1), j + 1)
  ELSE IF s[j] = BACKSLASH /\ j + 1 <= Len(s) /\ s[j + 1] \in DOMAIN BACKSLASH_ESC
  THEN py_scanstring(s, j + 2, acc \o SubSeq(s, i, j - 1) \o <<BACKSLASH_ESC[s[j + 1]]>>)
  ELSE Fail

py_scanstring(s, i, acc) ==
  py_scanstring_stop(s, i, acc,
    FirstOr0({j \in i..Len(s) : s[j] \in {QUOTE, BACKSLASH} \cup CONTROL}))

\* The end (exclusive) of the run of digits from position i on.
RECURSIVE digits_end(_, _)
digits_end(s, i) ==
  IF i <= Len(s) /\ s[i] \in DIGITS THEN digits_end(s, i + 1) ELSE i

\* The value of the digits s[i..j-1], continuing from acc.
RECURSIVE digits_val(_, _, _, _)
digits_val(s, i, j, acc) ==
  IF i >= j THEN acc ELSE digits_val(s, i + 1, j, 10 * acc + DigitVal(s[i]))

\* A fraction or an exponent follows at position e: a float, outside the alphabet.
FloatAt(s, e) ==
  \/ /\ e + 1 <= Len(s) /\ s[e] = "." /\ s[e + 1] \in DIGITS
  \/ /\ e + 1 <= Len(s) /\ s[e] \in {"e", "E"} /\ s[e + 1] \in DIGITS
  \/ /\ e + 2 <= Len(s) /\ s[e] \in {"e", "E"} /\ s[e + 1] \in {"+", "-"}
     /\ s[e + 2] \in DIGITS

\* NUMBER_RE: -?(0|[1-9]\d*); the digits are s[b..e-1].
JSONNumber_end(s, b, e, sign) ==
  IF e = b THEN Fail
  ELSE CASE ~FloatAt(s, e) -> Ok(PyInt(sign * digits_val(s, b, e, 0)), e)

JSONNumber_digits(s, b, sign) ==
  JSONNumber_end(s, b, IF b <= Len(s) /\ s[b] = "0" THEN b + 1 ELSE digits_end(s, b), sign)

JSONNumber(s, i) ==
  IF s[i] = "-" THEN JSONNumber_digits(s, i + 1, 0 - 1) ELSE JSONNumber_digits(s, i, 1)

RECURSIVE scan_once(_, _)

\* An array: after a value r, "]" ends it and "," brings the next value.
RECURSIVE JSONArray(_, _, _)
JSONArray_sep(s, acc, j) ==
  IF j > Len(s) THEN Fail
  ELSE IF s[j] = "]" THEN Ok(PyList(acc), j + 1)
  ELSE IF s[j] = "," THEN JSONArray(s, skip_ws(s, j + 1), acc)
  ELSE Fail

JSONArray_value(s, acc, r) ==
  IF ~r.ok THEN Fail ELSE JSONArray_sep(s, Append(acc, r.value), skip_ws(s, r.p))

JSONArray(s, i, acc) == JSONArray_value(s, acc, scan_once(s, i))

JSONArray_open(s, j) ==
  IF j <= Len(s) /\ s[j] = "]" THEN Ok(PyList(<<>>), j + 1) ELSE JSONArray(s, j, <<>>)

\* An object: a key k, ":", a value r; then "}" ends it and "," brings the
\* next member. A later duplicate of a key wins.
RECURSIVE JSONObject(_, _, _)
JSONObject_sep(s, d, j) ==
  IF j > Len(s) THEN Fail
  ELSE IF s[j] = "}" THEN Ok(PyDict(d), j + 1)
  ELSE IF s[j] = "," THEN JSONObject(s, skip_ws(s, j + 1), d)
  ELSE Fail

JSONObject_value(s, d, key, r) ==
  IF ~r.ok THEN Fail ELSE JSONObject_sep(s, DictSet(d, Str(key), r.value), skip_ws(s, r.p))

JSONObject_colon(s, d, key, c) ==
  IF c > Len(s) \/ s[c] # ":" THEN Fail
  ELSE JSONObject_value(s, d, key, scan_once(s, skip_ws(s, c + 1)))

JSONObject_key(s, d, k) ==
  IF ~k.ok THEN Fail ELSE JSONObject_colon(s, d, k.value, skip_ws(s, k.p))

JSONObject(s, i, d) ==
  IF i > Len(s) \/ s[i] # QUOTE THEN Fail
  ELSE JSONObject_key(s, d, py_scanstring(s, i + 1, <<>>))

JSONObject_open(s, j) ==
  IF j <= Len(s) /\ s[j] = "}" THEN Ok(EmptyDict, j + 1) ELSE JSONObject(s, j, <<>>)

JSONString(r) == IF r.ok THEN Ok(PyStr(r.value), r.p) ELSE Fail

\* The JSON value that starts at position i.
scan_once(s, i) ==
  IF i > Len(s) THEN Fail
  ELSE IF s[i] = QUOTE THEN JSONString(py_scanstring(s, i + 1, <<>>))
  ELSE IF s[i] = "{" THEN JSONObject_open(s, skip_ws(s, i + 1))
  ELSE IF s[i] = "[" THEN JSONArray_open(s, skip_ws(s, i + 1))
  ELSE IF HasAt(s, i, <<"n", "u", "l", "l">>) THEN Ok(PyNone, i + 4)
  ELSE IF HasAt(s, i, <<"t", "r", "u", "e">>) THEN Ok(PyBool(TRUE), i + 4)
  ELSE IF HasAt(s, i, <<"f", "a", "l", "s", "e">>) THEN Ok(PyBool(FALSE), i + 5)
  ELSE IF s[i] \in DIGITS \cup {"-"} THEN JSONNumber(s, i)
  ELSE Fail

\* An operation returns a value or raises an exception.
Raises(r) == "raise" \in DOMAIN r

\* json.loads(x): x must be a str; the whole text must be one JSON value.
json_loads_end(s, r) ==
  IF r.ok /\ skip_ws(s, r.p) > Len(s) THEN [return |-> r.value]
  ELSE [raise |-> "JSONDecodeError"]

json_loads(x) ==
  IF x[1] # "str" THEN [raise |-> "TypeError"]
  ELSE json_loads_end(x[2], scan_once(x[2], skip_ws(x[2], 1)))

(***************************************************************************)
(* uuid.UUID(hex) as _valid_id uses it (line 76)                           *)
(***************************************************************************)
HEXDIGITS ==
  DIGITS \cup {"a", "b", "c", "d", "e", "f", "A", "B", "C", "D", "E", "F"}

\* s is digits in groups joined by single underscores.
hex_groups(s) ==
  /\ s # <<>>
  /\ \A i \in 1..Len(s) : s[i] \in HEXDIGITS \cup {"_"}
  /\ s[1] # "_" /\ s[Len(s)] # "_"
  /\ \A i \in 1..(Len(s) - 1) : ~(s[i] = "_" /\ s[i + 1] = "_")

\* int(s, 16) succeeds: blanks around, a sign, a 0x prefix (an underscore may
\* follow it), digit groups.
int_16_unprefixed(c, prefixed) ==
  hex_groups(IF prefixed /\ c # <<>> /\ Head(c) = "_" THEN Tail(c) ELSE c)

int_16_unsigned(b) ==
  IF HasAt(b, 1, <<"0", "x">>) \/ HasAt(b, 1, <<"0", "X">>)
  THEN int_16_unprefixed(SubSeq(b, 3, Len(b)), TRUE)
  ELSE int_16_unprefixed(b, FALSE)

int_16_stripped(a) ==
  int_16_unsigned(IF a # <<>> /\ Head(a) \in {"+", "-"} THEN Tail(a) ELSE a)

int_16_ok(s) == int_16_stripped(strip(s, WHITESPACE \cup {"\f"}))

\* UUID(hex) returns (it raises ValueError otherwise); hex is a text. h is hex
\* without "urn:", "uuid:", braces around and hyphens. The number read is
\* below 2^128 and, no "-" being left, never negative.
UUID_hex_ok(h) == Len(h) = UUID_HEX_LEN /\ int_16_ok(h)

UUID_ok(hex) ==
  UUID_hex_ok(
    replace(strip(replace(replace(hex, <<"u", "r", "n", ":">>, <<>>),
                          <<"u", "u", "i", "d", ":">>, <<>>),
                  {"{", "}"}),
            <<"-">>, <<>>))

\* _valid_id(identifier): TypeError, ValueError and AttributeError mean False.
_valid_id(identifier) == identifier[1] = "str" /\ UUID_ok(identifier[2])

(***************************************************************************)
(* _parse_json (lines 48-70)                                               *)
(***************************************************************************)
\* The codec unicode_escape on the escapes of the alphabet; any other
\* backslash pair is kept as it stands.
UNICODE_ESC ==
  (QUOTE :> QUOTE) @@ (BACKSLASH :> BACKSLASH) @@ ("'" :> "'") @@ ("n" :> "\n")
    @@ ("t" :> "\t") @@ ("r" :> "\r") @@ ("f" :> "\f")

\* Escapes the codec also decodes (octal, \a, \b, \v, \x, \u, \U, \N, a line
\* break): they are outside the alphabet and occur in no input.
UNICODE_ESC_OUTSIDE ==
  {"0", "1", "2", "3", "4", "5", "6", "7", "a", "b", "v", "x", "u", "U", "N", "\n"}

\* bytes.decode('unicode_escape') from position i on (encode('latin1') keeps
\* every character of the alphabet); j is the next backslash.
RECURSIVE unicode_escape(_, _)
unicode_escape_at(s, i, j) ==
  IF j = 0 THEN SubSeq(s, i, Len(s))
  ELSE IF j + 1 <= Len(s) /\ s[j + 1] \in DOMAIN UNICODE_ESC
  THEN SubSeq(s, i, j - 1) \o <<UNICODE_ESC[s[j + 1]]>> \o unicode_escape(s, j + 2)
  ELSE CASE j + 1 <= Len(s) /\ s[j + 1] \notin UNICODE_ESC_OUTSIDE ->
         SubSeq(s, i, j) \o unicode_escape(s, j + 1)

unicode_escape(s, i) == unicode_escape_at(s, i, find(s, <<BACKSLASH>>, i))

\* unescape(match): decode the escapes, halve the doubled quotes, strip quotes.
unescape(m) ==
  strip(replace(unicode_escape(m, 1), <<QUOTE, QUOTE>>, <<QUOTE>>), {QUOTE})

\* Three quotes at position i: both ends of ENCODED_JSON_REGEX.
TripleQuoteAt(s, i) ==
  i + 2 <= Len(s) /\ s[i] = QUOTE /\ s[i + 1] = QUOTE /\ s[i + 2] = QUOTE

\* Where the closing three quotes of the shortest match that opens at p
\* begin; 0 when there is none (".+?" is at least one character, and "."
\* matches no newline). q is the first three quotes after that character.
match_end_at(s, p, q) ==
  IF q = 0 \/ \E k \in (p + 3)..(q - 1) : s[k] = NEWLINE THEN 0 ELSE q

match_end(s, p) ==
  match_end_at(s, p, FirstOr0({q \in (p + 4)..Len(s) : TripleQuoteAt(s, q)}))

\* ENCODED_JSON_REGEX.sub(unescape, body), from position i on: up to the
\* leftmost match, at p, its replacement, and on from its end.
RECURSIVE regex_sub(_, _)
regex_sub_match(s, i, p, q) ==
  SubSeq(s, i, p - 1) \o unescape(SubSeq(s, p, q + 2)) \o regex_sub(s, q + 3)

regex_sub_at(s, i, p) ==
  IF p = 0 THEN SubSeq(s, i, Len(s)) ELSE regex_sub_match(s, i, p, match_end(s, p))

regex_sub(s, i) ==
  regex_sub_at(s, i,
    FirstOr0({p \in i..Len(s) : TripleQuoteAt(s, p) /\ match_end(s, p) # 0}))

\* Lines 65-70: the result of json.loads, {} when it raised.
_parse_json_result(r) == IF Raises(r) THEN EmptyDict ELSE r.return

\* _parse_json(body): {} for an empty body.
_parse_json(body) ==
  IF body = <<>> THEN EmptyDict
  ELSE _parse_json_result(json_loads(PyStr(regex_sub(body, 1))))

(***************************************************************************)
(* _to_geojson (lines 99-149)                                              *)
(***************************************************************************)
Polygon(coords) ==
  PyDict([type |-> PyStr(<<"P", "o", "l", "y", "g", "o", "n">>), coordinates |-> coords])

Feature(id_, geometry, item) ==
  [type |-> "Feature", geometry |-> geometry, id |-> id_, properties |-> PyDict(item)]

FeatureCollection(features) == [type |-> "FeatureCollection", features |-> features]

\* The keys of dict d in some order, each as a str whose text is the key.
RECURSIVE dict_keys(_)
dict_keys_from(d, k) == <<PyStr(<<k>>)>> \o dict_keys(DictDel(d, k))

dict_keys(d) ==
  IF DOMAIN d = {} THEN <<>> ELSE dict_keys_from(d, CHOOSE j \in DOMAIN d : TRUE)

\* What `for item in x` iterates over: a list's elements, a str's characters,
\* a dict's keys; None, a bool and an int are not iterable.
iterate(x) ==
  CASE x[1] = "list" -> [return |-> x[2]]
    [] x[1] = "str" -> [return |-> [i \in 1..Len(x[2]) |-> PyStr(<<x[2][i]>>)]]
    [] x[1] = "dict" -> [return |-> dict_keys(x[2])]
    [] OTHER -> [raise |-> "TypeError"]

\* json_obj.get('Items', []) (lines 103 and 213): only a dict has get.
get_Items(json_obj) ==
  IF json_obj[1] # "dict" THEN [raise |-> "AttributeError"]
  ELSE IF "Items" \in DOMAIN json_obj[2] THEN [return |-> json_obj[2]["Items"]]
  ELSE [return |-> PyList(<<>>)]

\* Lines 125-131: no geometry for coords that are false, a Polygon otherwise.
geometry_of(coords) == IF Truthy(coords) THEN Polygon(coords) ELSE PyNone

\* Lines 118-124: coords that are no list go through json.loads; a
\* JSONDecodeError gives [], any other exception is not caught.
coords_loaded(loaded) ==
  IF ~Raises(loaded) THEN [return |-> geometry_of(loaded.return)]
  ELSE IF loaded.raise = "JSONDecodeError" THEN [return |-> geometry_of(PyList(<<>>))]
  ELSE loaded

\* Line 117 on: coords is item.pop('coordinates', []).
coords_geometry(coords) ==
  IF coords[1] = "list" THEN [return |-> geometry_of(coords)]
  ELSE coords_loaded(json_loads(coords))

\* Lines 115-137: the feature of an item whose id, id_, is popped and valid.
feature_with(id_, item, g) ==
  IF Raises(g) THEN g ELSE [return |-> Feature(id_, g.return, DictDel(item, "coordinates"))]

feature_of(id_, item, skip_geometry) ==
  IF skip_geometry THEN [return |-> Feature(id_, PyNone, item)]
  ELSE feature_with(id_, item,
         coords_geometry(IF "coordinates" \in DOMAIN item THEN item["coordinates"]
                         ELSE PyList(<<>>)))

\* The loop of lines 103-137 from the i-th item on; features is the list so
\* far. pop is a method of a dict (KeyError without the key) and of a list
\* (TypeError for an index that is a str).
RECURSIVE to_features(_, _, _, _)

\* to_features_add putting the feature in front of the list.
to_features_add_front(items, i, skip_geometry, features, f) ==
  IF Raises(f) THEN f
  ELSE to_features(items, i + 1, skip_geometry, <<f.return>> \o features)

to_features_add(items, i, skip_geometry, features, f) ==
  IF Raises(f) THEN f
  ELSE to_features(items, i + 1, skip_geometry, Append(features, f.return))

\* Lines 103-113: the id of the item is popped and validated.
\* to_features_item leaving the loop at the first invalid id.
to_features_item_break(items, i, skip_geometry, features, item) ==
  IF item[1] = "list" THEN [raise |-> "TypeError"]
  ELSE IF item[1] # "dict" THEN [raise |-> "AttributeError"]
  ELSE IF "id" \notin DOMAIN item[2] THEN [raise |-> "KeyError"]
  ELSE IF ~_valid_id(item[2]["id"]) THEN [return |-> features]
  ELSE to_features_add(items, i, skip_geometry, features,
                       feature_of(item[2]["id"], DictDel(item[2], "id"), skip_geometry))

to_features_item(items, i, skip_geometry, features, item) ==
  IF item[1] = "list" THEN [raise |-> "TypeError"]
  ELSE IF item[1] # "dict" THEN [raise |-> "AttributeError"]
  ELSE IF "id" \notin DOMAIN item[2] THEN [raise |-> "KeyError"]
  ELSE IF ~_valid_id(item[2]["id"]) THEN to_features(items, i + 1, skip_geometry, features)
  ELSE to_features_add(items, i, skip_geometry, features,
         feature_of(item[2]["id"], DictDel(item[2], "id"), skip_geometry))

to_features(items, i, skip_geometry, features) ==
  IF i > Len(items) THEN [return |-> features]
  ELSE to_features_item(items, i, skip_geometry, features, items[i])

\* shape without the check for no features.
shape_unchecked(features) ==
  IF Len(features) = 1 THEN [return |-> features[1]]
  ELSE [return |-> FeatureCollection(features)]

\* Lines 139-149: nothing, one feature, or a collection.
shape(features) ==
  IF features = <<>> THEN [raise |-> "ProviderNoDataError"]
  ELSE IF Len(features) = 1 THEN [return |-> features[1]]
  ELSE [return |-> FeatureCollection(features)]

_to_geojson_features(fs) == IF Raises(fs) THEN fs ELSE shape(fs.return)

_to_geojson_items(items, skip_geometry) ==
  IF Raises(items) THEN items
  ELSE _to_geojson_features(to_features(items.return, 1, skip_geometry, <<>>))

_to_geojson_got(got, skip_geometry) ==
  IF Raises(got) THEN got ELSE _to_geojson_items(iterate(got.return), skip_geometry)

_to_geojson(json_obj, skip_geometry) ==
  _to_geojson_got(get_Items(json_obj), skip_geometry)

(***************************************************************************)
(* query and get (lines 151-217) and _request_json (lines 81-97)           *)
(***************************************************************************)
\* query_params with east and west the other way round.
query_params_swapped(startindex, limit, bbox) ==
  IF bbox # <<>> THEN
    [return |-> [east |-> bbox[3], west |-> bbox[1], north |-> bbox[4],
                 south |-> bbox[2], min |-> startindex + 1,
                 max |-> startindex + limit]]
  ELSE [return |-> [keyword_only |-> "true", min |-> startindex + 1,
                    max |-> startindex + limit]]

\* Lines 170-191: the parameters query sends. bbox is a tuple, <<>> when
\* absent; unpacking it into four names needs exactly four values.
query_params(startindex, limit, bbox) ==
  IF bbox # <<>> THEN
    IF Len(bbox) # 4 THEN [raise |-> "ValueError"]
    ELSE [return |-> [east |-> bbox[1], west |-> bbox[3], north |-> bbox[4],
                      south |-> bbox[2], min |-> startindex + 1,
                      max |-> startindex + limit]]
  ELSE [return |-> [keyword_only |-> "true", min |-> startindex + 1,
                    max |-> startindex + limit]]

\* Lines 83-97: what _request_json makes of the outcome of requests.get.
\* HTTPError (raise_for_status) and ConnectionError are translated; any other
\* exception of requests (a read timeout, too many redirects) is not caught.
_request_json(outcome) ==
  CASE outcome.kind = "HTTPError" -> [raise |-> "ProviderQueryError"]
    [] outcome.kind = "ConnectionError" -> [raise |-> "ProviderConnectionError"]
    [] outcome.kind = "text" -> [return |-> _parse_json(outcome.text)]
    [] OTHER -> [raise |-> outcome.kind]

\* Lines 194-197: query once _request_json is back with json_obj.
query_rest(json_obj, skip_geometry) ==
  IF Raises(json_obj) THEN json_obj ELSE _to_geojson(json_obj.return, skip_geometry)

\* get_found without the check of Items.
get_found_unchecked(json_obj, items) ==
  IF Raises(items) THEN items ELSE _to_geojson(json_obj, FALSE)

\* Lines 213-217: get once _request_json is back with json_obj.
get_found(json_obj, items) ==
  IF Raises(items) THEN items
  ELSE IF ~Truthy(items.return) THEN [raise |-> "ProviderItemNotFoundError"]
  ELSE _to_geojson(json_obj, FALSE)

get_rest(json_obj) ==
  IF Raises(json_obj) THEN json_obj
  ELSE get_found(json_obj.return, get_Items(json_obj.return))

(***************************************************************************)
(* The backend: the documents it answers with and how it writes them.      *)
(* A document is null, an integer, a string, an array, an object (a        *)
(* sequence of members, in the order written) or an array written as an    *)
(* encoded JSON string (lines 61-62).                                      *)
(***************************************************************************)
J_null == [j |-> "null"]
J_int(n) == [j |-> "int", n |-> n]
J_str(text) == [j |-> "str", text |-> text]
J_arr(elements) == [j |-> "arr", elements |-> elements]
J_obj(members) == [j |-> "obj", members |-> members]
J_encoded(array) == [j |-> "encoded", array |-> array]
Member(key, doc) == [key |-> key, doc |-> doc]

\* The texts of a sequence joined by a comma.
RECURSIVE join(_)
join(texts) ==
  IF texts = <<>> THEN <<>>
  ELSE IF Len(texts) = 1 THEN texts[1]
  ELSE texts[1] \o <<",">> \o join(Tail(texts))

\* A string as JSON writes it.
json_string(text) ==
  <<QUOTE>> \o replace(replace(text, <<BACKSLASH>>, <<BACKSLASH, BACKSLASH>>),
                       <<QUOTE>>, <<BACKSLASH, QUOTE>>) \o <<QUOTE>>

\* The encoded form of an array's JSON text: a quote and a doubled quote, the
\* text with every quote doubled, a doubled quote and a quote.
encode_array(text) ==
  <<QUOTE, QUOTE, QUOTE>> \o replace(text, <<QUOTE>>, <<QUOTE, QUOTE>>)
    \o <<QUOTE, QUOTE, QUOTE>>

\* The JSON text of a document (integers are single digits).
RECURSIVE dump(_)
dump(doc) ==
  CASE doc.j = "null" -> <<"n", "u", "l", "l">>
    [] doc.j = "int" -> <<CHOOSE c \in DIGITS : DigitVal(c) = doc.n>>
    [] doc.j = "str" -> json_string(doc.text)
    [] doc.j = "arr" ->
         <<"[">> \o join([i \in 1..Len(doc.elements) |-> dump(doc.elements[i])]) \o <<"]">>
    [] doc.j = "obj" ->
         <<"{">> \o join([i \in 1..Len(doc.members) |->
                           json_string(doc.members[i].key) \o <<":">>
                             \o dump(doc.members[i].doc)]) \o <<"}">>
    [] doc.j = "encoded" -> encode_array(dump(doc.array))

\* The same document with every array written plainly.
RECURSIVE plain(_)
plain(doc) ==
  CASE doc.j = "arr" -> J_arr([i \in 1..Len(doc.elements) |-> plain(doc.elements[i])])
    [] doc.j = "obj" ->
         J_obj([i \in 1..Len(doc.members) |->
                 Member(doc.members[i].key, plain(doc.members[i].doc))])
    [] doc.j = "encoded" -> plain(doc.array)
    [] OTHER -> doc

\* All sequences over S of length at most n.
SeqsUpTo(S, n) == UNION {[1..k -> S] : k \in 0..n}

\* c repeated n times.
Rep(c, n) == [i \in 1..n |-> c]

K_Items == <<"I", "t", "e", "m", "s">>
K_id == <<"i", "d">>
K_coordinates == <<"c", "o", "o", "r", "d", "i", "n", "a", "t", "e", "s">>
K_name == <<"n", "a", "m", "e">>
K_keywords == <<"k", "e", "y", "w", "o", "r", "d", "s">>

\* Identifiers: a UUID in canonical form, and what else a caller or the
\* backend may give for one.
UUID_A ==
  Rep("a", 8) \o <<"-">> \o Rep("b", 4) \o <<"-", "4">> \o Rep("c", 3) \o <<"-", "8">>
    \o Rep("d", 3) \o <<"-">> \o Rep("e", 12)
UUID_F ==
  Rep("f", 8) \o <<"-">> \o Rep("0", 4) \o <<"-", "4">> \o Rep("1", 3) \o <<"-", "9">>
    \o Rep("2", 3) \o <<"-">> \o Rep("3", 12)
UUID_NoHyphens == replace(UUID_A, <<"-">>, <<>>)
UUID_Braces == <<"{">> \o UUID_A \o <<"}">>
UUID_Urn == <<"u", "r", "n", ":", "u", "u", "i", "d", ":">> \o UUID_A
UUID_0x == <<"0", "x">> \o Rep("a", 30)
NotAUuid == <<"n", "o", "t", "-", "a", "-", "u", "u", "i", "d">>
UUID_BadDigit == Rep("a", 8) \o <<"-">> \o Rep("b", 4) \o <<"-", "4">> \o Rep("c", 3)
                   \o <<"-", "8">> \o Rep("d", 3) \o <<"-">> \o Rep("g", 12)
UUID_Short == SubSeq(UUID_A, 1, 35)

Identifiers ==
  {UUID_A, UUID_F, UUID_NoHyphens, UUID_Braces, UUID_Urn, UUID_0x,
   NotAUuid, UUID_BadDigit, UUID_Short, <<>>}

\* The ring of a polygon, as a document and as the decoded value.
Point(x, y) == J_arr(<<J_int(x), J_int(y)>>)
RingDoc == J_arr(<<J_arr(<<Point(0, 0), Point(1, 0), Point(1, 1), Point(0, 0)>>)>>)
PyPoint(x, y) == PyList(<<PyInt(x), PyInt(y)>>)
PyRing == PyList(<<PyList(<<PyPoint(0, 0), PyPoint(1, 0), PyPoint(1, 1), PyPoint(0, 0)>>)>>)

\* Records the backend answers with.
Rec_native == J_obj(<<Member(K_id, J_str(UUID_A)), Member(K_coordinates, RingDoc),
                      Member(K_name, J_str(<<"A">>))>>)
Rec_encoded == J_obj(<<Member(K_id, J_str(UUID_F)),
                       Member(K_coordinates, J_encoded(RingDoc)),
                       Member(K_name, J_str(<<"B">>))>>)
Rec_badid == J_obj(<<Member(K_id, J_str(NotAUuid)), Member(K_coordinates, RingDoc)>>)
Rec_noid == J_obj(<<Member(K_name, J_str(<<"C">>))>>)
Rec_numcoords == J_obj(<<Member(K_id, J_str(UUID_A)), Member(K_coordinates, J_int(5))>>)
Rec_keywords == J_obj(<<Member(K_id, J_str(UUID_A)),
                        Member(K_keywords, J_encoded(J_arr(<<J_str(<<>>)>>)))>>)

BackendRecords == {Rec_native, Rec_encoded, Rec_badid, Rec_noid, Rec_numcoords}

\* The most records in one response.
MaxItems == 2

\* Response bodies: nothing, no JSON, JSON that is no object, an object
\* without Items or with Items null, and Items of up to MaxItems records.
Bodies ==
  {<<>>, <<"z", "z">>, dump(J_arr(<<J_int(1)>>)), dump(J_obj(<<>>)),
   dump(J_obj(<<Member(K_Items, J_null)>>)),
   dump(J_obj(<<Member(K_Items, J_arr(<<Rec_keywords>>))>>))}
    \cup {dump(J_obj(<<Member(K_Items, J_arr(items))>>)) :
            items \in SeqsUpTo(BackendRecords, MaxItems)}

\* What requests.get and raise_for_status end in: a body, or an exception.
Outcomes ==
  {[kind |-> "text", text |-> body] : body \in Bodies}
    \cup {[kind |-> "HTTPError"], [kind |-> "ConnectionError"], [kind |-> "ReadTimeout"]}

(***************************************************************************)
(* The caller's arguments                                                  *)
(***************************************************************************)
MaxStartIndex == 1
MaxLimit == 2
BBoxCoords == {0, 1}
BBoxes == {<<>>} \cup {<<minx, miny, maxx, maxy>> :
                         minx \in BBoxCoords, miny \in BBoxCoords,
                         maxx \in BBoxCoords, maxy \in BBoxCoords}

\* The arguments query never reads, at their defaults (lines 152-153) and given.
IgnoredNames == {"datetime_", "properties", "sortby", "select_properties", "q"}
IgnoredDefault ==
  [datetime_ |-> PyNone, properties |-> PyList(<<>>), sortby |-> PyList(<<>>),
   select_properties |-> PyList(<<>>), q |-> PyNone]
IgnoredGiven ==
  [datetime_ |-> PyStr(<<"2", "0", "2", "0">>),
   properties |-> PyList(<<PyList(<<PyStr(<<"k">>), PyStr(<<"v">>)>>)>>),
   sortby |-> PyList(<<PyDict(("property" :> PyStr(<<"k">>)) @@ ("order" :> PyStr(<<"+">>)))>>),
   select_properties |-> PyList(<<PyStr(<<"k">>)>>),
   q |-> PyStr(<<"x">>)]
IgnoredArgs ==
  {[n \in IgnoredNames |-> IF n \in given THEN IgnoredGiven[n] ELSE IgnoredDefault[n]] :
     given \in {{}, IgnoredNames} \cup {{n} : n \in IgnoredNames}}

(***************************************************************************)
(* The provider serving one call at a time                                 *)
(***************************************************************************)
VARIABLES
  pc,        \* where the call stands: idle, request, response, done
  op,        \* the operation called: none, query, get
  args,      \* the arguments of the call that are still to be read
  request,   \* the GET that is out: its url and params
  outbound,  \* how many GETs the call has issued
  response,  \* what requests.get ended in
  json_obj,  \* what _request_json returned or raised
  result     \* what the call returned or raised

vars == <<pc, op, args, request, outbound, response, json_obj, result>>

None == [kind |-> "none"]

Init ==
  /\ pc = "idle"
  /\ op = "none"
  /\ args = None
  /\ request = None
  /\ outbound = 0
  /\ response = None
  /\ json_obj = None
  /\ result = None

\* query(...) up to requests.get (lines 170-194, 85).
query_request(params) ==
  IF Raises(params)
  THEN /\ pc' = "done"
       /\ result' = params
       /\ UNCHANGED <<request, outbound>>
  ELSE /\ pc' = "request"
       /\ request' = [kind |-> "GET", url |-> "_query_url", params |-> params.return]
       /\ outbound' = outbound + 1
       /\ UNCHANGED result

query(startindex, limit, resulttype, bbox, ignored, skip_geometry) ==
  /\ pc = "idle"
  /\ op' = "query"
  /\ args' = [kind |-> "query", startindex |-> startindex, limit |-> limit,
              resulttype |-> resulttype, bbox |-> bbox, ignored |-> ignored,
              skip_geometry |-> skip_geometry]
  /\ query_request(query_params(startindex, limit, bbox))
  /\ UNCHANGED <<response, json_obj>>

\* get that sends the request without validating the identifier.
get_unvalidated(identifier) ==
  /\ pc = "idle"
  /\ op' = "get"
  /\ args' = [kind |-> "get", identifier |-> identifier]
  /\ pc' = "request"
  /\ request' = [kind |-> "GET", url |-> "_get_url", params |-> [id |-> identifier]]
  /\ outbound' = outbound + 1
  /\ UNCHANGED <<result, response, json_obj>>

\* get(identifier) up to requests.get (lines 201-211, 85).
get(identifier) ==
  /\ pc = "idle"
  /\ op' = "get"
  /\ args' = [kind |-> "get", identifier |-> identifier]
  /\ IF ~_valid_id(identifier)
     THEN /\ pc' = "done"
          /\ result' = [raise |-> "ProviderInvalidQueryError"]
          /\ UNCHANGED <<request, outbound>>
     ELSE /\ pc' = "request"
          /\ request' = [kind |-> "GET", url |-> "_get_url", params |-> [id |-> identifier]]
          /\ outbound' = outbound + 1
          /\ UNCHANGED result
  /\ UNCHANGED <<response, json_obj>>

\* requests.get and raise_for_status end (lines 85-86). The params are spent,
\* and of the arguments only skip_geometry is read after this (line 197).
requests_get(outcome) ==
  /\ pc = "request"
  /\ pc' = "response"
  /\ response' = outcome
  /\ request' = None
  /\ args' = IF op = "query"
             THEN [kind |-> "query", skip_geometry |-> args.skip_geometry]
             ELSE args
  /\ UNCHANGED <<op, outbound, json_obj, result>>

\* The rest of query (lines 87-97, 194-197).
query_returns ==
  /\ pc = "response" /\ op = "query"
  /\ pc' = "done"
  /\ json_obj' = _request_json(response)
  /\ result' = query_rest(json_obj', args.skip_geometry)
  /\ UNCHANGED <<op, args, request, outbound, response>>

\* The rest of get (lines 87-97, 211-217).
get_returns ==
  /\ pc = "response" /\ op = "get"
  /\ pc' = "done"
  /\ json_obj' = _request_json(response)
  /\ result' = get_rest(json_obj')
  /\ UNCHANGED <<op, args, request, outbound, response>>

\* The caller has the result; the provider keeps nothing of the call.
next_call ==
  /\ pc = "done"
  /\ pc' = "idle"
  /\ op' = "none"
  /\ args' = None
  /\ request' = None
  /\ outbound' = 0
  /\ response' = None
  /\ json_obj' = None
  /\ result' = None

Next ==
  \/ \E startindex \in 0..MaxStartIndex, limit \in 1..MaxLimit,
        resulttype \in {"results", "hits"}, bbox \in BBoxes,
        ignored \in IgnoredArgs, skip_geometry \in BOOLEAN :
       query(startindex, limit, resulttype, bbox, ignored, skip_geometry)
  \/ \E identifier \in Identifiers : get(PyStr(identifier))
  \/ \E outcome \in Outcomes : requests_get(outcome)
  \/ query_returns
  \/ get_returns
  \/ next_call

Spec == Init /\ [][Next]_vars

(***************************************************************************)
(* Properties of the provider serving calls (Spec)                         *)
(***************************************************************************)
ProviderErrors ==
  {"ProviderConnectionError", "ProviderQueryError", "ProviderInvalidQueryError",
   "ProviderItemNotFoundError", "ProviderNoDataError"}

IsFeature(x) == x.type = "Feature"
IsFeatureCollection(x) == x.type = "FeatureCollection"

\* C1: the parameters of every search request are east=minX, west=maxX,
\* north=maxY, south=minY when a bounding box is given, the keyword-only flag
\* when none is, with min = startindex + 1 and max = startindex + limit in
\* both cases, and no other key, whatever the other arguments are.
C1_QueryParams ==
  (pc = "request" /\ op = "query") =>
    /\ request.kind = "GET" /\ request.url = "_query_url"
    /\ request.params.min = args.startindex + 1
    /\ request.params.max = args.startindex + args.limit
    /\ IF args.bbox # <<>>
       THEN /\ DOMAIN request.params = {"east", "west", "north", "south", "min", "max"}
            /\ request.params.east = args.bbox[1]
            /\ request.params.south = args.bbox[2]
            /\ request.params.west = args.bbox[3]
            /\ request.params.north = args.bbox[4]
       ELSE /\ DOMAIN request.params = {"keyword_only", "min", "max"}
            /\ request.params.keyword_only = "true"

\* A search for hits with a bounding box and every ignored argument given is
\* out, from a start index above 0.
C1_Witness ==
  /\ pc = "request" /\ op = "query"
  /\ args.bbox = <<0, 1, 1, 0>>
  /\ args.startindex = 1 /\ args.limit = 2
  /\ args.resulttype = "hits"
  /\ args.ignored = IgnoredGiven
  /\ request.params.east = 0 /\ request.params.west = 1

\* C2: a call of query or get returns a Feature or a FeatureCollection, or
\* raises one of the five provider errors, whatever the transport and the
\* response body do.
C2_OnlyProviderErrors ==
  (pc = "done") =>
    IF Raises(result) THEN result.raise \in ProviderErrors
    ELSE IsFeature(result.return) \/ IsFeatureCollection(result.return)

\* The canonical form of a UUID: 8-4-4-4-12 hex digits.
IsCanonicalUUID(text) ==
  /\ Len(text) = 36
  /\ \A i \in 1..36 :
       IF i \in {9, 14, 19, 24} THEN text[i] = "-" ELSE text[i] \in HEXDIGITS

HasValidId(item) ==
  item[1] = "dict" /\ "id" \in DOMAIN item[2] /\ _valid_id(item[2]["id"])

\* The record has an id, and _valid_id rejects it.
HasInvalidId(item) ==
  item[1] = "dict" /\ "id" \in DOMAIN item[2] /\ ~_valid_id(item[2]["id"])

\* The decoded value is an object without Items or with an empty Items list.
NoItems(decoded) ==
  /\ decoded[1] = "dict"
  /\ \/ "Items" \notin DOMAIN decoded[2]
     \/ decoded[2]["Items"] = PyList(<<>>)

\* The decoded value is an object whose Items all have an id that is invalid.
AllIdsInvalid(decoded) ==
  /\ decoded[1] = "dict" /\ "Items" \in DOMAIN decoded[2]
  /\ decoded[2]["Items"][1] = "list"
  /\ \A i \in 1..Len(decoded[2]["Items"][2]) : HasInvalidId(decoded[2]["Items"][2][i])

\* The body is empty, or is no JSON after the repair of encoded arrays.
NoJson(body) == body = <<>> \/ Raises(json_loads(PyStr(regex_sub(body, 1))))

C7_GetItemNotFound ==
  (pc = "done" /\ op = "get" /\ _valid_id(args.identifier) /\ response.kind = "text"
     /\ (NoJson(response.text) \/ NoItems(json_obj.return)))
    => result = [raise |-> "ProviderItemNotFoundError"]

\* get with a canonical UUID and the response {"Items":[]} has raised
\* ProviderItemNotFoundError.
C7_Witness ==
  /\ pc = "done" /\ op = "get"
  /\ args.identifier = PyStr(UUID_A)
  /\ response.kind = "text"
  /\ response.text = dump(J_obj(<<Member(K_Items, J_arr(<<>>))>>))
  /\ result = [raise |-> "ProviderItemNotFoundError"]

\* The records of the decoded Items that survive the validation of id.
Survivors(decoded) == SelectSeq(decoded[2]["Items"][2], HasValidId)

\* The Feature query or get makes of a surviving record.
FeatureFor(item, skip_geometry) ==
  feature_of(item[2]["id"], DictDel(item[2], "id"), skip_geometry).return

\* C10: a successful result is the one Feature, bare, when one record
\* survives the validation of id, and for n >= 2 surviving records a
\* FeatureCollection of their n Features in the order of the records.
C10_ResultShape ==
  (pc = "done" /\ op \in {"query", "get"} /\ ~Raises(result)) =>
    LET survivors == Survivors(json_obj.return)
        skip == op = "query" /\ args.skip_geometry
    IN /\ Len(survivors) >= 1
       /\ Len(survivors) = 1 =>
            /\ IsFeature(result.return)
            /\ result.return = FeatureFor(survivors[1], skip)
       /\ Len(survivors) >= 2 =>
            /\ IsFeatureCollection(result.return)
            /\ DOMAIN result.return = {"type", "features"}
            /\ Len(result.return.features) = Len(survivors)
            /\ \A i \in 1..Len(survivors) :
                 result.return.features[i] = FeatureFor(survivors[i], skip)

\* A search has returned a FeatureCollection of two different Features, after
\* a response of at least two records.
C10_Witness ==
  /\ pc = "done" /\ op = "query" /\ ~Raises(result)
  /\ IsFeatureCollection(result.return)
  /\ Len(result.return.features) = 2
  /\ result.return.features[1].id # result.return.features[2].id

(***************************************************************************)
(* _to_geojson alone, on the Items a decoded response may hold              *)
(***************************************************************************)
\* The id of a record: two valid ones, an invalid one, or none.
AssembleIds == {PyStr(UUID_A), PyStr(UUID_F), PyStr(NotAUuid), PyNone}

\* The coordinates of a record: none, an empty array, a ring, a string that
\* is no JSON, the JSON text of a ring, the JSON text of a number, a number.
AssembleCoords ==
  {PyNone, PyList(<<>>), PyRing, PyStr(<<"z", "z">>), PyStr(dump(RingDoc)),
   PyStr(<<"5">>), PyInt(5)}

\* A record with a name, and with the id and the coordinates that are given
\* (PyNone stands for a key the record does not have).
Record(id_, coords) ==
  PyDict([k \in {"name"} \cup (IF id_ = PyNone THEN {} ELSE {"id"})
                 \cup (IF coords = PyNone THEN {} ELSE {"coordinates"}) |->
            CASE k = "name" -> PyStr(<<"A">>)
              [] k = "id" -> id_
              [] k = "coordinates" -> coords])

AssembleRecords == {Record(id_, coords) : id_ \in AssembleIds, coords \in AssembleCoords}

AssembleInit ==
  /\ pc = "assemble"
  /\ op = "_to_geojson"
  /\ \E items \in SeqsUpTo(AssembleRecords, MaxItems) :
       json_obj = [return |-> PyDict("Items" :> PyList(items))]
  /\ \E skip_geometry \in BOOLEAN :
       args = [kind |-> "_to_geojson", skip_geometry |-> skip_geometry]
  /\ request = None
  /\ outbound = 0
  /\ response = None
  /\ result = None

\* One call of _to_geojson (lines 99-149).
assemble ==
  /\ pc = "assemble"
  /\ result' = _to_geojson(json_obj.return, args.skip_geometry)
  /\ pc' = "assembled"
  /\ UNCHANGED <<op, args, request, outbound, response, json_obj>>

AssembleNext == assemble

AssembleSpec == AssembleInit /\ [][AssembleNext]_vars

\* The Features of a result, one or many.
FeaturesOf(returned) ==
  IF IsFeature(returned) THEN <<returned>> ELSE returned.features

\* The Items of the state's json_obj.
ItemsIn == json_obj.return[2]["Items"][2]

\* Items without the records whose id is there and invalid.
NotInvalidId(item) == ~HasInvalidId(item)
WithoutInvalidIds == PyDict("Items" :> PyList(SelectSeq(ItemsIn, NotInvalidId)))

C5_PropertiesWithoutIdAndCoordinates ==
  (pc = "assembled" /\ ~Raises(result)) =>
    /\ Len(FeaturesOf(result.return)) = Len(Survivors(json_obj.return))
    /\ \A i \in 1..Len(FeaturesOf(result.return)) :
         FeaturesOf(result.return)[i].properties =
           PyDict(DictDel(DictDel(Survivors(json_obj.return)[i][2], "id"), "coordinates"))

\* The array a record's coordinates are: the array itself, or the array its
\* string parses to; otherwise no array.
CoordinatesArray(item) ==
  IF "coordinates" \notin DOMAIN item[2] THEN PyNone
  ELSE IF item[2]["coordinates"][1] = "list" THEN item[2]["coordinates"]
  ELSE IF item[2]["coordinates"][1] # "str" THEN PyNone
  ELSE IF Raises(json_loads(item[2]["coordinates"])) THEN PyNone
  ELSE IF json_loads(item[2]["coordinates"]).return[1] = "list"
       THEN json_loads(item[2]["coordinates"]).return
  ELSE PyNone

\* The geometry the claim gives a record: a Polygon of a non-empty array, or
\* null.
ClaimedGeometry(item) ==
  IF CoordinatesArray(item) # PyNone /\ CoordinatesArray(item)[2] # <<>>
  THEN Polygon(CoordinatesArray(item)) ELSE PyNone

\* C8: with geometry not skipped, no record with an id is lost to its
\* coordinates, whatever they are; the geometry of its Feature is a Polygon
\* with the array when coordinates is, or parses from a string to, a
\* non-empty array, and null otherwise.
C8_PolygonOrNull ==
  (pc = "assembled" /\ ~args.skip_geometry
     /\ \A i \in 1..Len(ItemsIn) : "id" \in DOMAIN ItemsIn[i][2]) =>
    IF Survivors(json_obj.return) = <<>>
    THEN result = [raise |-> "ProviderNoDataError"]
    ELSE /\ ~Raises(result)
         /\ Len(FeaturesOf(result.return)) = Len(Survivors(json_obj.return))
         /\ \A i \in 1..Len(FeaturesOf(result.return)) :
              FeaturesOf(result.return)[i].geometry =
                ClaimedGeometry(Survivors(json_obj.return)[i])

(***************************************************************************)
(* _parse_json alone, on a body with encoded arrays and on the same body   *)
(* with the arrays written plainly                                         *)
(***************************************************************************)
\* The most elements of an array.
MaxArrayLen == 2

\* What an array holds: a number, a string, the empty string, and arrays of
\* these.
Scalars == {J_int(1), J_str(<<"a">>), J_str(<<>>)}
FlatArrays == {J_arr(elements) : elements \in SeqsUpTo(Scalars, MaxArrayLen)}
Arrays == {J_arr(elements) : elements \in SeqsUpTo(Scalars \cup FlatArrays, MaxArrayLen)}

\* Documents with one encoded array, and with two.
EncodedDocs ==
  {J_obj(<<Member(K_keywords, J_encoded(array))>>) : array \in Arrays}
    \cup {J_obj(<<Member(K_keywords, J_encoded(a)), Member(K_coordinates, J_encoded(b))>>) :
            a \in FlatArrays, b \in FlatArrays}

DecodeInit ==
  /\ pc = "decode"
  /\ op = "_parse_json"
  /\ \E doc \in EncodedDocs :
       /\ args = [kind |-> "_parse_json", doc |-> doc]
       /\ response = [kind |-> "text", text |-> dump(doc), plain |-> dump(plain(doc))]
  /\ request = None
  /\ outbound = 0
  /\ json_obj = None
  /\ result = None

\* _parse_json (lines 48-70) on the body, and on the plain body.
decode ==
  /\ pc = "decode"
  /\ json_obj' = [return |-> _parse_json(response.text)]
  /\ result' = [return |-> _parse_json(response.plain)]
  /\ pc' = "decoded"
  /\ UNCHANGED <<op, args, request, outbound, response>>

DecodeNext == decode

DecodeSpec == DecodeInit /\ [][DecodeNext]_vars

\* C9: a body whose arrays are written in the encoded form decodes to the
\* value the body decodes to with the same arrays written plainly.
C9_EncodedDecodesAsPlain ==
  (pc = "decoded") => json_obj.return = result.return

====
